---- MODULE Spec2Model ----
(***************************************************************************)
(* The chat client of frontend-chatpp: the Home page (src/app/page.tsx),   *)
(* AuthContainer (src/unnamed/part_000) and the ChatApp component          *)
(* (src/components/ChatApp.tsx, the component of lines 351-1270).          *)
(*                                                                         *)
(* React state is modelled by one variable per useState/useRef cell.  A    *)
(* closure that an effect installs once (ws.onmessage) reads the values of *)
(* the render that created it; those captured values are the h* variables. *)
(***************************************************************************)
EXTENDS Integers, Sequences, FiniteSets, TLC

\* ------------------------------------------------------------------ bounds
MaxUserId == 1        \* user ids are 0..MaxUserId
MaxMessages == 2      \* longest displayed list
MaxMsgId == 2         \* server message ids are 1..MaxMsgId
MaxReactions == 2     \* most reaction entries on one message
MaxBoot == 1          \* most messages in one boot snapshot

\* ------------------------------------------------------------------ values
NoId == -1            \* null / undefined where an id or a number is expected
Absent == -2          \* the key is not present in the JSON object
NoToken == "null"     \* null token
NoFrame == [kind |-> "none"]

UserIds == 0..MaxUserId
ProfileIds == {1}                 \* ids GET /auth/me answers with
Tokens == {"tok"}                 \* access tokens that let ChatApp render
AccessTokens == Tokens \cup {""}  \* access_token values of a sign-in answer
Emojis == {"+"}                   \* emojis of the reaction picker
ReactionUsers == {{1}}            \* users sets carried by a reaction event
ClientIds == {101}                \* values of Date.now().toString()
TypedInputs == {<<>>, <<" ">>, <<" ", "a">>}   \* texts typed into the textarea
RawTexts == {<<" ">>, <<"a">>}    \* inbound payloads that are not JSON
JsonTexts == {<<"7">>}             \* inbound payloads that are JSON but no event
NoList == [missing |-> TRUE]      \* an online-users payload that is not there
OnlinePayloads ==                 \* online-users payloads (user ids)
  {NoList, [missing |-> FALSE, list |-> <<1>>],
   [missing |-> FALSE, list |-> <<0, 1>>]}
MinPassword == 6                  \* shortest password validateForm accepts
MinUsername == 3                  \* shortest username validateForm accepts
PasswordLengths == {0, MinPassword - 1, MinPassword}
UsernameLengths == {0, MinUsername - 1, MinUsername}
EmailInputs ==                    \* texts typed into the email input
  {<<>>, <<"a", "@", "b", ".", "c">>, <<"a", "@", "b">>, <<"@", "b", ".", "c">>,
   <<"a", "@", ".", "c">>, <<"a", " ", "@", "b", ".", "c">>}
FileTypes == {"image/png", "text/plain"}     \* file.type of the chosen file

\* ----------------------------------------------------------- pure helpers
\* JavaScript truthiness of a number-or-null: null, undefined and 0 are falsy.
Truthy(x) == x # NoId /\ x # Absent /\ x # 0

\* x || null
OrNull(x) == IF Truthy(x) THEN x ELSE NoId

IsSpace(c) == c = " "

RECURSIVE TrimLeft(_)
TrimLeft(s) == IF s # <<>> /\ IsSpace(Head(s)) THEN TrimLeft(Tail(s)) ELSE s

RECURSIVE TrimRight(_)
TrimRight(s) ==
  IF s # <<>> /\ IsSpace(s[Len(s)]) THEN TrimRight(SubSeq(s, 1, Len(s) - 1)) ELSE s

\* The text as typed
Untrimmed(s) == s

\* String.prototype.trim
Trim(s) == TrimRight(TrimLeft(s))

\* ------------------------------------------------------------------- state
VARIABLES
  \* Home (src/app/page.tsx)
  isAuthenticated, token, authToken, homeEffect,
  \* AuthContainer (src/unnamed/part_000)
  mode, authIsLoading, error, authReq,
  \* AuthForm (src/components/AuthForm.tsx:12-17)
  formData, errors,
  \* ChatApp (src/components/ChatApp.tsx:351-375)
  user, isLoading, profileReq,
  secondReq,          \* GET /auth/me of a second run of the mount effect is in flight
  oldWs,              \* the socket the WebSocket effect replaced: none, closing, gone
  messages, input, replyTo, selectedUser, isDirectMessage, isConnected,
  onlineUsers,
  ws,                 \* readyState of wsRef.current: none, connecting, open, closed
  hIsDirectMessage,   \* isDirectMessage as the installed ws.onmessage closure sees it
  hSelectedUser,      \* selectedUser as the installed ws.onmessage closure sees it
  wsEffect,           \* the WebSocket effect (383-481) is scheduled
  reloadPending,      \* the reload effect (692-697) is scheduled with its guard true
  upload,             \* the handleFileUpload call awaiting POST /upload
  switchedOnline,     \* the conversation was last selected while isConnected
  \* environment: the server end of the socket
  inbox,              \* frames delivered to the socket, not yet dispatched
  bootSent,           \* the server has sent the boot event of this connection
  nextId,             \* next message id the server assigns
  \* observation
  lastCall            \* the handler the latest step called and what it put on
                      \* the wire or dispatched (NoCall after other steps)

homeVars == <<isAuthenticated, token, authToken, homeEffect>>
authVars == <<mode, authIsLoading, error, authReq, formData, errors>>
chatVars == <<user, isLoading, profileReq, secondReq, oldWs, messages, input,
              replyTo, selectedUser, isDirectMessage, isConnected, ws,
              hIsDirectMessage, hSelectedUser, wsEffect, reloadPending, upload,
              switchedOnline, onlineUsers>>
envVars == <<inbox, bootSent, nextId>>
vars == <<homeVars, authVars, chatVars, envVars, lastCall>>

NoUpload == [pending |-> FALSE]
NoReq == [method |-> "none"]
NoCall == [op |-> "none", frame |-> NoFrame, http |-> NoReq]

\* The step is ws.onmessage dispatching an event of the given type while
\* shown messages are displayed.
Dispatched(type, shown) ==
  [op |-> "onmessage", frame |-> NoFrame, http |-> NoReq,
   event |-> type, shown |-> shown]

\* The same for the onmessage handler of a replaced socket.
DispatchedOld(type, shown) ==
  [op |-> "onmessage(old)", frame |-> NoFrame, http |-> NoReq,
   event |-> type, shown |-> shown]

\* The step is not a call of one of the recorded handlers.
Quiet == lastCall' = NoCall

\* The state of a freshly mounted ChatApp (useState/useRef initial values).
ChatAppInit(fetching) ==
  /\ user' = NoId
  /\ isLoading' = TRUE
  /\ profileReq' = fetching
  /\ secondReq' = FALSE
  /\ oldWs' = "none"
  /\ messages' = <<>>
  /\ input' = <<>>
  /\ replyTo' = NoId
  /\ selectedUser' = NoId
  /\ isDirectMessage' = FALSE
  /\ isConnected' = FALSE
  /\ ws' = "none"
  /\ hIsDirectMessage' = FALSE
  /\ hSelectedUser' = NoId
  /\ wsEffect' = fetching
  /\ reloadPending' = FALSE
  /\ upload' = NoUpload
  /\ switchedOnline' = FALSE
  /\ onlineUsers' = <<>>
  /\ inbox' = <<>>
  /\ bootSent' = FALSE
  /\ nextId' = 1

\* useState initial values of AuthForm (12-17)
EmptyForm == [email |-> <<>>, password |-> <<>>, username |-> <<>>]
NoErrors == [email |-> "", password |-> "", username |-> ""]

\* The state of a freshly mounted AuthContainer, AuthForm included.
AuthContainerInit ==
  /\ mode' = "signin"
  /\ authIsLoading' = FALSE
  /\ error' = ""
  /\ authReq' = "none"
  /\ formData' = EmptyForm
  /\ errors' = NoErrors

Init ==
  /\ isAuthenticated = FALSE
  /\ token = NoToken
  /\ authToken \in {NoToken} \cup Tokens
  /\ homeEffect = TRUE
  /\ mode = "signin"
  /\ authIsLoading = FALSE
  /\ error = ""
  /\ authReq = "none"
  /\ formData = EmptyForm
  /\ errors = NoErrors
  /\ user = NoId
  /\ isLoading = TRUE
  /\ profileReq = FALSE
  /\ secondReq = FALSE
  /\ oldWs = "none"
  /\ messages = <<>>
  /\ input = <<>>
  /\ replyTo = NoId
  /\ selectedUser = NoId
  /\ isDirectMessage = FALSE
  /\ isConnected = FALSE
  /\ ws = "none"
  /\ hIsDirectMessage = FALSE
  /\ hSelectedUser = NoId
  /\ wsEffect = FALSE
  /\ reloadPending = FALSE
  /\ upload = NoUpload
  /\ switchedOnline = FALSE
  /\ onlineUsers = <<>>
  /\ inbox = <<>>
  /\ bootSent = FALSE
  /\ nextId = 1
  /\ lastCall = NoCall

\* Home renders ChatApp (page.tsx:30-32), otherwise AuthContainer.
ChatAppRendered == isAuthenticated /\ token # NoToken /\ token # ""

\* -------------------------------------------------------------------- Home
\* useEffect(() => {...}, []) of Home
HomeMountEffect ==
  /\ homeEffect
  /\ homeEffect' = FALSE
  /\ IF authToken # NoToken /\ authToken # ""
       THEN /\ token' = authToken
            /\ isAuthenticated' = TRUE
            /\ ChatAppInit(TRUE)
       ELSE UNCHANGED <<token, isAuthenticated, chatVars, envVars>>
  /\ UNCHANGED <<authToken, authVars>> /\ Quiet

\* Home.handleLogout, reached through the onLogout prop: ChatApp unmounts (its
\* cleanup closes the socket) and AuthContainer mounts.  The caller says what
\* happens to localStorage.
HomeHandleLogout ==
  /\ token' = NoToken
  /\ isAuthenticated' = FALSE
  /\ ChatAppInit(FALSE)
  /\ AuthContainerInit
  /\ UNCHANGED homeEffect

\* ----------------------------------------------------------- AuthContainer
toggleMode ==
  /\ ~homeEffect /\ ~ChatAppRendered
  /\ mode' = IF mode = "signin" THEN "signup" ELSE "signin"
  /\ error' = ""
  /\ UNCHANGED <<authIsLoading, authReq, formData, errors,
                 homeVars, chatVars, envVars>> /\ Quiet

\* handleAuth up to the await of fetch (15-27)
handleAuth ==
  /\ authIsLoading' = TRUE
  /\ error' = ""
  /\ authReq' = mode
  /\ UNCHANGED <<mode, homeVars, chatVars, envVars>>

\* ---------------------------------------------------------------- AuthForm
\* /\S+@\S+\.\S+/.test(email): somewhere in the text a character that is no
\* space, '@', one or more characters that are no spaces, '.', and a character
\* that is no space
EmailPattern(email) ==
  \E i, k \in 1..Len(email) :
    /\ i >= 2 /\ ~IsSpace(email[i - 1]) /\ email[i] = "@"
    /\ k >= i + 2 /\ email[k] = "."
    /\ \A m \in (i + 1)..(k - 1) : ~IsSpace(email[m])
    /\ k + 1 <= Len(email) /\ ~IsSpace(email[k + 1])

\* validateForm (28-47): newErrors, '' standing for a key that is not set
NewErrors(data, formMode) ==
  [email |-> IF data.email = <<>> THEN "Email is required"
             ELSE IF ~EmailPattern(data.email) THEN "Email is invalid" ELSE "",
   password |-> IF data.password = <<>> THEN "Password is required"
                ELSE IF Len(data.password) < MinPassword
                  THEN "Password must be at least 6 characters" ELSE "",
   username |-> IF formMode = "signup" /\ data.username = <<>>
                  THEN "Username is required"
                ELSE IF formMode = "signup" /\ Len(data.username) < MinUsername
                  THEN "Username must be at least 3 characters" ELSE ""]

\* submitData (56-58)
SubmitData(data, formMode) ==
  IF formMode = "signup"
    THEN [email |-> data.email, password |-> data.password,
          username |-> data.username]
    ELSE [email |-> data.email, password |-> data.password]

\* What a handleSubmit call did: the data it gave to onSubmit, if it did
SubmitCall(called, data) ==
  [op |-> "handleSubmit", frame |-> NoFrame, http |-> NoReq,
   onSubmit |-> called, data |-> data]

AuthFormShown == ~homeEffect /\ ~ChatAppRendered

\* handleChange (19-26); the username input exists in signup mode only (66)
handleChange ==
  /\ AuthFormShown
  /\ \/ \E v \in EmailInputs : formData' = [formData EXCEPT !.email = v]
                                /\ errors' = [errors EXCEPT !.email = ""]
     \/ \E n \in PasswordLengths :
          /\ formData' = [formData EXCEPT !.password = [i \in 1..n |-> "p"]]
          /\ errors' = [errors EXCEPT !.password = ""]
     \/ \E n \in UsernameLengths :
          /\ mode = "signup"
          /\ formData' = [formData EXCEPT !.username = [i \in 1..n |-> "u"]]
          /\ errors' = [errors EXCEPT !.username = ""]
  /\ UNCHANGED <<mode, authIsLoading, error, authReq,
                 homeVars, chatVars, envVars>> /\ Quiet

\* handleSubmit without the call of validateForm
handleSubmitUnchecked ==
  /\ AuthFormShown /\ ~authIsLoading
  /\ UNCHANGED <<formData, errors>>
  /\ handleAuth
  /\ lastCall' = SubmitCall(TRUE, SubmitData(formData, mode))

\* handleSubmit (53-61) with the onSubmit it calls, handleAuth; the submit
\* button is disabled while isLoading (130)
handleSubmit ==
  /\ AuthFormShown /\ ~authIsLoading
  /\ errors' = NewErrors(formData, mode)
  /\ UNCHANGED formData
  /\ IF NewErrors(formData, mode) = NoErrors
       THEN /\ handleAuth
            /\ lastCall' = SubmitCall(TRUE, SubmitData(formData, mode))
       ELSE /\ UNCHANGED <<mode, authIsLoading, error, authReq,
                           homeVars, chatVars, envVars>>
            /\ lastCall' = SubmitCall(FALSE, <<>>)

\* What a settled handleAuth call did: the endpoint it posted to, how the
\* request ended and the access_token of the answer.
AuthCall(endpoint, outcome, accessToken) ==
  [op |-> "handleAuth", frame |-> NoFrame,
   http |-> [method |-> "POST", endpoint |-> endpoint, outcome |-> outcome,
             access_token |-> accessToken]]

\* catch without setError
AuthFailedSilently(message) ==
  /\ error' = error
  /\ authIsLoading' = FALSE
  /\ authReq' = "none"
  /\ UNCHANGED <<mode, formData, errors, homeVars, chatVars, envVars>>

\* catch with the finally block skipped
AuthFailedStillLoading(message) ==
  /\ error' = message
  /\ authIsLoading' = authIsLoading
  /\ authReq' = "none"
  /\ UNCHANGED <<mode, formData, errors, homeVars, chatVars, envVars>>

\* catch and finally of handleAuth (44-48)
AuthFailed(message) ==
  /\ error' = message
  /\ authIsLoading' = FALSE
  /\ authReq' = "none"
  /\ UNCHANGED <<mode, formData, errors, homeVars, chatVars, envVars>>

\* handleAuth after the fetch settles.  response.json() is awaited before
\* response.ok is looked at; mode is the one of the render that made the call.
handleAuthSettle ==
  /\ authReq # "none"
  /\ \E outcome \in {"ok", "notOk", "notJson", "throws"}, t \in AccessTokens :
       /\ lastCall' = AuthCall(authReq, outcome, t)
       /\ CASE outcome = "notJson" -> AuthFailed("Unexpected token < in JSON")
            [] outcome = "throws" -> AuthFailed("Failed to fetch")
            [] outcome = "notOk" -> AuthFailed("Authentication failed")
            [] outcome = "ok" /\ authReq = "signup" ->
                 /\ mode' = "signin"
                 /\ error' = "Account created successfully! Please sign in."
                 /\ authIsLoading' = FALSE
                 /\ authReq' = "none"
                 /\ UNCHANGED <<formData, errors, homeVars, chatVars, envVars>>
            [] outcome = "ok" /\ authReq = "signin" ->
                 /\ authToken' = t
                 /\ token' = t
                 /\ isAuthenticated' = TRUE
                 /\ UNCHANGED homeEffect
                 /\ IF t # ""
                      THEN ChatAppInit(TRUE) /\ AuthContainerInit
                      ELSE /\ authIsLoading' = FALSE
                           /\ authReq' = "none"
                           /\ UNCHANGED <<mode, error, formData, errors,
                                          chatVars, envVars>>

\* setUser(userData) (520-522) and the render that follows: it creates the
\* closures of the WebSocket effect, which read isDirectMessage and
\* selectedUser of that render, and schedules the effects that depend on user.
ProfileStored ==
  \E u \in ProfileIds :
    /\ user' = u
    /\ isLoading' = FALSE
    /\ hIsDirectMessage' = isDirectMessage
    /\ hSelectedUser' = selectedUser
    /\ wsEffect' = TRUE
    /\ reloadPending' = (reloadPending \/ isConnected)
    /\ UNCHANGED <<oldWs, messages, input, replyTo,
                   selectedUser, switchedOnline, onlineUsers, isDirectMessage,
                   isConnected, ws, upload, homeVars, authVars, envVars>>
    /\ Quiet

\* fetchUserProfile after GET /auth/me settles.
fetchUserProfile ==
  /\ ChatAppRendered /\ profileReq
  /\ \E outcome \in {"ok", "notOk", "throws"} :
       IF outcome = "ok"
         THEN /\ ProfileStored
              /\ profileReq' = FALSE
              /\ UNCHANGED secondReq
         ELSE /\ HomeHandleLogout
              /\ UNCHANGED authToken /\ Quiet

\* In a development build React (StrictMode) runs the mount effect (378-381)
\* a second time right after the mount: fetchUserProfile is called again.
StrictModeRemount ==
  /\ ChatAppRendered /\ profileReq /\ wsEffect /\ user = NoId /\ ~secondReq
  /\ secondReq' = TRUE
  /\ UNCHANGED <<user, isLoading, profileReq, oldWs, messages, input,
                 replyTo, selectedUser, isDirectMessage, isConnected, ws,
                 hIsDirectMessage, hSelectedUser, wsEffect, reloadPending,
                 upload, switchedOnline, onlineUsers,
                 homeVars, authVars, envVars>> /\ Quiet

\* The second call of fetchUserProfile after its GET /auth/me settles
fetchUserProfileAgain ==
  /\ ChatAppRendered /\ secondReq
  /\ \E outcome \in {"ok", "notOk", "throws"} :
       IF outcome = "ok"
         THEN /\ ProfileStored
              /\ secondReq' = FALSE
              /\ UNCHANGED profileReq
         ELSE /\ HomeHandleLogout
              /\ UNCHANGED authToken /\ Quiet

\* The cleanup of the WebSocket effect (478-481) closes the socket of the
\* previous run and leaves its handlers attached; the new socket is a new
\* connection of the server.
Replaced(socket) == IF socket \in {"connecting", "open"} THEN "closing" ELSE oldWs

\* The WebSocket effect without its first line
WebSocketEffectUnguarded ==
  /\ ChatAppRendered /\ wsEffect
  /\ wsEffect' = FALSE
  /\ ws' = "connecting"
  /\ oldWs' = Replaced(ws)
  /\ inbox' = <<>> /\ bootSent' = FALSE /\ nextId' = 1
  /\ UNCHANGED <<user, isLoading, profileReq, secondReq, messages,
                 input, replyTo, selectedUser, switchedOnline, onlineUsers, isDirectMessage, isConnected,
                 hIsDirectMessage, hSelectedUser, reloadPending, upload,
                 homeVars, authVars>> /\ Quiet

\* The body of useEffect(..., [user, token]), which runs after the mount and
\* after each change of user: if (!user) return; new WebSocket(...)
WebSocketEffect ==
  /\ ChatAppRendered /\ wsEffect
  /\ wsEffect' = FALSE
  /\ IF user = NoId
       THEN UNCHANGED <<ws, oldWs, envVars>>
       ELSE /\ ws' = "connecting"
            /\ oldWs' = Replaced(ws)
            /\ inbox' = <<>> /\ bootSent' = FALSE /\ nextId' = 1
  /\ UNCHANGED <<user, isLoading, profileReq, secondReq, messages,
                 input, replyTo, selectedUser, switchedOnline, onlineUsers, isDirectMessage, isConnected,
                 hIsDirectMessage, hSelectedUser, reloadPending, upload,
                 homeVars, authVars>> /\ Quiet

\* onclose and onerror of a replaced socket (394-401): setIsConnected(false)
oldOnclose ==
  /\ ChatAppRendered /\ oldWs = "closing"
  /\ oldWs' = "gone"
  /\ isConnected' = FALSE
  /\ UNCHANGED <<user, isLoading, profileReq, secondReq, messages, input,
                 replyTo, selectedUser, isDirectMessage, ws,
                 hIsDirectMessage, hSelectedUser, wsEffect, reloadPending,
                 upload, switchedOnline, onlineUsers,
                 homeVars, authVars, envVars>> /\ Quiet

\* ws.onopen
onopen ==
  /\ ChatAppRendered /\ ws = "connecting"
  /\ ws' = "open"
  /\ isConnected' = TRUE
  /\ reloadPending' = (reloadPending \/ (user # NoId /\ ~isConnected))
  /\ UNCHANGED <<user, isLoading, profileReq, secondReq, oldWs, messages,
                 input, replyTo, selectedUser, switchedOnline, onlineUsers, isDirectMessage,
                 hIsDirectMessage, hSelectedUser, wsEffect, upload,
                 homeVars, authVars, envVars>> /\ Quiet

\* ws.onclose: the socket is gone, frames not yet dispatched are lost
onclose ==
  /\ ChatAppRendered /\ ws \in {"connecting", "open"}
  /\ ws' = "closed"
  /\ isConnected' = FALSE
  /\ inbox' = <<>>
  /\ UNCHANGED <<user, isLoading, profileReq, secondReq, oldWs, messages,
                 input, replyTo, selectedUser, switchedOnline, onlineUsers, isDirectMessage,
                 hIsDirectMessage, hSelectedUser, wsEffect, reloadPending,
                 upload, homeVars, authVars, bootSent, nextId>> /\ Quiet

\* ws.onerror: a WebSocket error is always followed by the close of the socket
onerror ==
  /\ ChatAppRendered /\ ws \in {"connecting", "open"}
  /\ ws' = "closed"
  /\ isConnected' = FALSE
  /\ inbox' = <<>>
  /\ UNCHANGED <<user, isLoading, profileReq, secondReq, oldWs, messages,
                 input, replyTo, selectedUser, switchedOnline, onlineUsers, isDirectMessage,
                 hIsDirectMessage, hSelectedUser, wsEffect, reloadPending,
                 upload, homeVars, authVars, bootSent, nextId>> /\ Quiet

\* The body of the reload effect: if (isConnected && user) setMessages([])
ReloadEffect ==
  /\ ChatAppRendered /\ reloadPending
  /\ reloadPending' = FALSE
  /\ messages' = <<>>
  /\ UNCHANGED <<user, isLoading, profileReq, secondReq, oldWs, input,
                 replyTo, selectedUser, switchedOnline, onlineUsers, isDirectMessage, isConnected, ws,
                 hIsDirectMessage, hSelectedUser, wsEffect, upload,
                 homeVars, authVars, envVars>> /\ Quiet

\* ------------------------------------------------- the server end (inputs)
\* A ChatMessage as the server sends it (interface ChatMessage, 322-336).
Msg(id, author, recipient) ==
  [id |-> id, user |-> author, recipientId |-> recipient,
   content |-> <<"a">>, reactions |-> <<>>]

MsgShapes == [user : UserIds, recipientId : {NoId} \cup UserIds]

\* Boot snapshots: up to MaxBoot messages, ids in creation order.
BootSnapshots ==
  UNION {{[i \in 1..k |-> Msg(i, f[i].user, f[i].recipientId)] :
            f \in [1..k -> MsgShapes]} : k \in 0..MaxBoot}

Reactions == [emoji : Emojis, users : ReactionUsers]

\* The server emits one frame at a time; ws.onmessage dispatches it.
CanSend == ChatAppRendered /\ ws = "open" /\ inbox = <<>>

\* The boot event is the first frame of a connection and is sent once.
ServerBootWith(payloads) ==
  /\ CanSend /\ ~bootSent
  /\ \E snap \in BootSnapshots, online \in payloads :
       /\ inbox' = <<[type |-> "boot", messages |-> snap, online_users |-> online]>>
       /\ nextId' = Len(snap) + 1
  /\ bootSent' = TRUE
  /\ UNCHANGED <<homeVars, authVars, chatVars>> /\ Quiet

ServerBoot == ServerBootWith(OnlinePayloads)

\* The boot event of a connection on which nobody is reported online
ServerBootAlone == ServerBootWith({NoList})

ServerOnlineUsers ==
  /\ CanSend /\ bootSent
  /\ \E online \in OnlinePayloads :
       inbox' = <<[type |-> "online_users", data |-> online]>>
  /\ UNCHANGED <<homeVars, authVars, chatVars, bootSent, nextId>> /\ Quiet

ServerMessage ==
  /\ CanSend /\ bootSent /\ nextId <= MaxMsgId /\ Len(messages) < MaxMessages
  /\ \E sh \in MsgShapes :
       inbox' = <<[type |-> "message",
                   data |-> Msg(nextId, sh.user, sh.recipientId)]>>
  /\ nextId' = nextId + 1
  /\ UNCHANGED <<homeVars, authVars, chatVars, bootSent>> /\ Quiet

ServerReaction ==
  /\ CanSend /\ bootSent
  /\ \E id \in 1..(nextId - 1), r \in Reactions :
       /\ \A k \in 1..Len(messages) :
            messages[k].id = id => Len(messages[k].reactions) < MaxReactions
       /\ inbox' = <<[type |-> "reaction", messageId |-> id, reaction |-> r]>>
  /\ UNCHANGED <<homeVars, authVars, chatVars, bootSent, nextId>> /\ Quiet

ServerDelete ==
  /\ CanSend /\ bootSent
  /\ \E id \in 1..(nextId - 1) :
       inbox' = <<[type |-> "delete", messageId |-> id]>>
  /\ UNCHANGED <<homeVars, authVars, chatVars, bootSent, nextId>> /\ Quiet

ServerError ==
  /\ CanSend /\ bootSent
  /\ inbox' = <<[type |-> "error", data |-> "bad"]>>
  /\ UNCHANGED <<homeVars, authVars, chatVars, bootSent, nextId>> /\ Quiet

\* A payload that JSON.parse rejects
ServerText ==
  /\ CanSend /\ bootSent /\ Len(messages) < MaxMessages
  /\ \E t \in RawTexts : inbox' = <<[type |-> "text", raw |-> t]>>
  /\ UNCHANGED <<homeVars, authVars, chatVars, bootSent, nextId>> /\ Quiet

\* A payload JSON.parse accepts that has none of the six types, such as 7 or
\* {"type":"typing"}
ServerOther ==
  /\ CanSend /\ bootSent
  /\ \E t \in JsonTexts : inbox' = <<[type |-> "unknown", raw |-> t]>>
  /\ UNCHANGED <<homeVars, authVars, chatVars, bootSent, nextId>> /\ Quiet

\* ------------------------------------------------------------ ws.onmessage
\* The test of the direct-message branches (416-417, 432-433)
IsDirectFor(msg, me, sel) ==
  \/ (msg.user = me /\ msg.recipientId = sel)
  \/ (msg.user = sel /\ msg.recipientId = me)

\* The test of the general branches (422, 438): !msg.recipientId
IsGeneralFor(msg) == ~Truthy(msg.recipientId)

\* boot branch (409-425): the list the boot event installs
BootMessages(allMessages) ==
  IF hIsDirectMessage /\ hSelectedUser # NoId
    THEN LET Test(m) == IsDirectFor(m, user, hSelectedUser)
         IN  SelectSeq(allMessages, Test)
    ELSE SelectSeq(allMessages, IsGeneralFor)

\* message branch (426-441): is the message appended?
MessageShown(message) ==
  IF hIsDirectMessage
    THEN IsDirectFor(message, user, hSelectedUser)
    ELSE IsGeneralFor(message)

\* reaction branch (446-453)
ApplyReaction(prev, messageId, reaction) ==
  LET F(msg) == IF msg.id = messageId
                  THEN [msg EXCEPT !.reactions = Append(msg.reactions, reaction)]
                  ELSE msg
  IN  [i \in 1..Len(prev) |-> F(prev[i])]

\* A filter that keeps the message the event names
ApplyDeleteInverted(prev, messageId) ==
  LET Test(msg) == msg.id = messageId
  IN  SelectSeq(prev, Test)

\* delete branch (454-455)
ApplyDelete(prev, messageId) ==
  LET Test(msg) == msg.id # messageId
  IN  SelectSeq(prev, Test)

\* x || [] with the payload ignored
OrEmptyAlways(payload) == <<>>

\* parsed.data.online_users || [] (424) and parsed.data || [] (445)
OrEmpty(payload) == IF payload.missing THEN <<>> ELSE payload.list

\* [message, ...prev]
PrependMessage(prev, message) == <<message>> \o prev

\* [...prev, message] (435, 439, 473)
AppendMessage(prev, message) == Append(prev, message)

\* catch branch (459-475): the System message made from a payload
SystemMessage(asText, now) ==
  [id |-> now, user |-> 0, recipientId |-> Absent,
   content |-> asText, reactions |-> <<>>]

onmessage ==
  /\ ChatAppRendered /\ ws = "open" /\ inbox # <<>>
  /\ inbox' = Tail(inbox)
  /\ LET ev == Head(inbox) IN
     CASE ev.type = "boot" ->
            /\ messages' = BootMessages(ev.messages)
            /\ onlineUsers' = OrEmpty(ev.online_users)
       [] ev.type = "message" ->
            /\ messages' = IF MessageShown(ev.data)
                             THEN AppendMessage(messages, ev.data) ELSE messages
            /\ UNCHANGED onlineUsers
       [] ev.type = "online_users" ->
            /\ onlineUsers' = OrEmpty(ev.data)
            /\ UNCHANGED messages
       [] ev.type = "reaction" ->
            /\ messages' = ApplyReaction(messages, ev.messageId, ev.reaction)
            /\ UNCHANGED onlineUsers
       [] ev.type = "delete" ->
            /\ messages' = ApplyDelete(messages, ev.messageId)
            /\ UNCHANGED onlineUsers
       [] ev.type = "error" ->
            /\ UNCHANGED <<messages, onlineUsers>>
       [] ev.type = "unknown" ->
            /\ UNCHANGED <<messages, onlineUsers>>
       [] ev.type = "text" ->
            /\ \E now \in ClientIds :
                 messages' = IF Len(Trim(ev.raw)) > 0
                               THEN AppendMessage(messages, SystemMessage(ev.raw, now))
                               ELSE messages
            /\ UNCHANGED onlineUsers
  /\ UNCHANGED <<user, isLoading, profileReq, secondReq, oldWs, input,
                 replyTo, selectedUser, switchedOnline, isDirectMessage, isConnected, ws,
                 hIsDirectMessage, hSelectedUser, wsEffect, reloadPending,
                 upload, homeVars, authVars, bootSent, nextId>>
  /\ lastCall' = Dispatched(Head(inbox).type, Len(messages))

\* onmessage of a replaced socket that is still closing: a message event that
\* was on its way.  The closure of the first run saw general chat.
oldOnmessage ==
  /\ ChatAppRendered /\ oldWs = "closing" /\ Len(messages) < MaxMessages
  /\ \E sh \in MsgShapes :
       LET message == Msg(1, sh.user, sh.recipientId) IN
       messages' = IF IsGeneralFor(message)
                     THEN AppendMessage(messages, message) ELSE messages
  /\ lastCall' = DispatchedOld("message", Len(messages))
  /\ UNCHANGED <<user, isLoading, profileReq, secondReq, oldWs, input,
                 replyTo, selectedUser, isDirectMessage, isConnected, ws,
                 hIsDirectMessage, hSelectedUser, wsEffect, reloadPending,
                 upload, switchedOnline, onlineUsers,
                 homeVars, authVars, envVars>>

\* --------------------------------------------------------- user's handlers
\* The chat screen is shown and React has flushed the scheduled effects (it
\* does so before it handles a click or a key).  A frame in flight is
\* dispatched first: the run in which the user acts before the dispatch is the
\* run in which the server sends after the user's action.
UiReady ==
  /\ ChatAppRendered /\ ~isLoading /\ ~wsEffect /\ ~reloadPending
  /\ inbox = <<>>

SocketOpen == ws = "open"

\* replyTo?.id ? String(replyTo.id) : null
ReplyToId(r) == IF Truthy(r) THEN r ELSE NoId

RawFrame(text) ==
  [kind |-> "raw", content |-> text, replyTo |-> Absent, recipientId |-> Absent,
   messageType |-> "absent", fileUrl |-> "absent"]

\* messageData of sendMessage with replyTo left null
TextFrameNoReply(trimmed) ==
  [kind |-> "json", content |-> trimmed, replyTo |-> NoId,
   recipientId |-> OrNull(selectedUser), messageType |-> "text",
   fileUrl |-> "absent"]

\* messageData of sendMessage (561-566)
TextFrame(trimmed) ==
  [kind |-> "json", content |-> trimmed, replyTo |-> ReplyToId(replyTo),
   recipientId |-> OrNull(selectedUser), messageType |-> "text",
   fileUrl |-> "absent"]

\* messageData of sendEmojiDirectly (667-671)
EmojiFrame(emoji) ==
  [kind |-> "json", content |-> <<emoji>>, replyTo |-> Absent,
   recipientId |-> OrNull(selectedUser), messageType |-> "text",
   fileUrl |-> "absent"]

\* messageType of an uploaded file (604-605)
FileMessageType(type) ==
  IF type \in {"image/png"} THEN "image"
  ELSE IF type \in {"video/mp4"} THEN "video" ELSE "file"

\* messageData of handleFileUpload (599-607)
FileFrame(type, reply) ==
  [kind |-> "json", content |-> <<>>, replyTo |-> ReplyToId(reply),
   recipientId |-> Absent, messageType |-> FileMessageType(type),
   fileUrl |-> "/uploads/f"]

\* onChange of the textarea
setInput ==
  /\ UiReady
  /\ \E text \in TypedInputs : input' = text
  /\ UNCHANGED <<user, isLoading, profileReq, secondReq, oldWs, messages,
                 replyTo, selectedUser, switchedOnline, onlineUsers, isDirectMessage, isConnected, ws,
                 hIsDirectMessage, hSelectedUser, wsEffect, reloadPending,
                 upload, homeVars, authVars, envVars>> /\ Quiet

\* The Reply button of a displayed message (1085) and Cancel reply (1152)
setReplyTo ==
  /\ UiReady
  /\ \/ \E k \in 1..Len(messages) : replyTo' = messages[k].id
     \/ replyTo # NoId /\ replyTo' = NoId
  /\ UNCHANGED <<user, isLoading, profileReq, secondReq, oldWs, messages,
                 input, selectedUser, switchedOnline, onlineUsers, isDirectMessage, isConnected, ws,
                 hIsDirectMessage, hSelectedUser, wsEffect, reloadPending,
                 upload, homeVars, authVars, envVars>> /\ Quiet

\* sendMessage without its last line, setReplyTo(null)
sendMessageKeepsReply ==
  /\ UiReady
  /\ LET trimmed == Trim(input) IN
     IF trimmed = <<>> \/ ws = "none" \/ ~SocketOpen
       THEN /\ lastCall' = [op |-> "sendMessage", frame |-> NoFrame, http |-> NoReq]
            /\ UNCHANGED <<input, replyTo>>
       ELSE /\ lastCall' =
                 [op |-> "sendMessage",
                  frame |-> IF isDirectMessage \/ replyTo # NoId
                              THEN TextFrame(trimmed) ELSE RawFrame(trimmed),
                  http |-> NoReq]
            /\ input' = <<>>
            /\ UNCHANGED replyTo
  /\ UNCHANGED <<user, isLoading, profileReq, secondReq, oldWs, messages,
                 selectedUser, switchedOnline, onlineUsers, isDirectMessage, isConnected, ws,
                 hIsDirectMessage, hSelectedUser, wsEffect, reloadPending,
                 upload, homeVars, authVars, envVars>>

\* sendMessage (555-575)
sendMessage ==
  /\ UiReady
  /\ LET trimmed == Trim(input) IN
     IF trimmed = <<>> \/ ws = "none" \/ ~SocketOpen
       THEN /\ lastCall' = [op |-> "sendMessage", frame |-> NoFrame, http |-> NoReq]
            /\ UNCHANGED <<input, replyTo>>
       ELSE /\ lastCall' =
                 [op |-> "sendMessage",
                  frame |-> IF isDirectMessage \/ replyTo # NoId
                              THEN TextFrame(trimmed) ELSE RawFrame(trimmed),
                  http |-> NoReq]
            /\ input' = <<>>
            /\ replyTo' = NoId
  /\ UNCHANGED <<user, isLoading, profileReq, secondReq, oldWs, messages,
                 selectedUser, switchedOnline, onlineUsers, isDirectMessage, isConnected, ws,
                 hIsDirectMessage, hSelectedUser, wsEffect, reloadPending,
                 upload, homeVars, authVars, envVars>>

sendEmojiDirectly ==
  /\ UiReady
  /\ \E emoji \in Emojis :
       lastCall' =
         [op |-> "sendEmojiDirectly",
          frame |-> IF ws = "none" \/ ~SocketOpen THEN NoFrame
                    ELSE IF isDirectMessage THEN EmojiFrame(emoji)
                    ELSE RawFrame(<<emoji>>),
          http |-> NoReq]
  /\ UNCHANGED <<homeVars, authVars, chatVars, envVars>>

\* handleFileUpload up to the await of POST /upload; replyTo is the one of the
\* render in which the file was chosen
handleFileUpload ==
  /\ UiReady /\ ~upload.pending
  /\ IF ws = "none" \/ ~SocketOpen
       THEN /\ lastCall' = [op |-> "handleFileUpload", frame |-> NoFrame,
                            http |-> NoReq]
            /\ UNCHANGED upload
       ELSE /\ upload' = [pending |-> TRUE, replyTo |-> replyTo]
            /\ lastCall' = [op |-> "handleFileUpload", frame |-> NoFrame,
                            http |-> [method |-> "UPLOAD"]]
  /\ UNCHANGED <<user, isLoading, profileReq, secondReq, oldWs, messages,
                 input, replyTo, selectedUser, switchedOnline, onlineUsers, isDirectMessage, isConnected, ws,
                 hIsDirectMessage, hSelectedUser, wsEffect, reloadPending,
                 homeVars, authVars, envVars>>

\* handleFileUpload after POST /upload settles.  send() on a socket that has
\* closed meanwhile discards the frame without throwing.  file.type is read
\* here for the first time, so the type of the chosen file is drawn here.
handleFileUploadSettle ==
  /\ ChatAppRendered /\ upload.pending
  /\ upload' = NoUpload
  /\ \E outcome \in {"ok", "notOk", "throws"}, type \in FileTypes :
       IF outcome = "ok"
         THEN /\ lastCall' =
                   [op |-> "handleFileUpload",
                    frame |-> IF SocketOpen
                                THEN FileFrame(type, upload.replyTo)
                                ELSE NoFrame,
                    http |-> NoReq]
              /\ replyTo' = NoId
         ELSE /\ lastCall' = [op |-> "handleFileUpload", frame |-> NoFrame,
                              http |-> NoReq]
              /\ UNCHANGED replyTo
  /\ UNCHANGED <<user, isLoading, profileReq, secondReq, oldWs, messages,
                 input, selectedUser, switchedOnline, onlineUsers, isDirectMessage, isConnected, ws,
                 hIsDirectMessage, hSelectedUser, wsEffect, reloadPending,
                 homeVars, authVars, envVars>>

\* The emoji buttons of the reaction picker of a displayed message (1131)
addReaction ==
  /\ UiReady
  /\ \E k \in 1..Len(messages), emoji \in Emojis :
       lastCall' =
         [op |-> "addReaction", frame |-> NoFrame,
          http |-> IF ws = "none" \/ ~SocketOpen THEN NoReq
                   ELSE [method |-> "POST", messageId |-> messages[k].id,
                         emoji |-> emoji]]
  /\ UNCHANGED <<homeVars, authVars, chatVars, envVars>>

\* The Delete button of a displayed message (1103)
deleteMessage ==
  /\ UiReady
  /\ \E k \in 1..Len(messages) :
       lastCall' =
         [op |-> "deleteMessage", frame |-> NoFrame,
          http |-> IF ws = "none" \/ ~SocketOpen THEN NoReq
                   ELSE [method |-> "DELETE", messageId |-> messages[k].id,
                         author |-> messages[k].user]]
  /\ UNCHANGED <<homeVars, authVars, chatVars, envVars>>

\* A row of the user list (980), one row per user GET /auth/users returned;
\* the reload effect the click schedules runs at once
handleUserSelect ==
  /\ UiReady
  /\ \E u \in UserIds :
       /\ selectedUser' = u
       /\ isDirectMessage' = TRUE
       /\ messages' = <<>>
  /\ switchedOnline' = isConnected
  /\ UNCHANGED <<user, isLoading, profileReq, secondReq, oldWs, input, onlineUsers,
                 replyTo, isConnected, ws, hIsDirectMessage, hSelectedUser,
                 wsEffect, reloadPending, upload, homeVars, authVars, envVars>> /\ Quiet

\* handleGeneralChat without setSelectedUser(null)
handleGeneralChatKeepsUser ==
  /\ UiReady
  /\ isDirectMessage' = FALSE
  /\ messages' = <<>>
  /\ switchedOnline' = isConnected
  /\ UNCHANGED <<user, isLoading, profileReq, secondReq, oldWs, input, onlineUsers,
                 selectedUser, replyTo, isConnected, ws, hIsDirectMessage, hSelectedUser,
                 wsEffect, reloadPending, upload, homeVars, authVars, envVars>> /\ Quiet

\* The General Chat row (1038)
handleGeneralChat ==
  /\ UiReady
  /\ selectedUser' = NoId
  /\ isDirectMessage' = FALSE
  /\ messages' = <<>>
  /\ switchedOnline' = isConnected
  /\ UNCHANGED <<user, isLoading, profileReq, secondReq, oldWs, input, onlineUsers,
                 replyTo, isConnected, ws, hIsDirectMessage, hSelectedUser,
                 wsEffect, reloadPending, upload, homeVars, authVars, envVars>> /\ Quiet

\* handleLogout without its first line
handleLogoutKeepToken ==
  /\ UiReady
  /\ UNCHANGED authToken
  /\ HomeHandleLogout
  /\ lastCall' = [op |-> "handleLogout", frame |-> NoFrame, http |-> NoReq]

\* ChatApp.handleLogout (549-553)
handleLogout ==
  /\ UiReady
  /\ authToken' = NoToken
  /\ HomeHandleLogout
  /\ lastCall' = [op |-> "handleLogout", frame |-> NoFrame, http |-> NoReq]

\* The page, the session and the socket
Lifecycle ==
  \/ HomeMountEffect
  \/ toggleMode
  \/ handleChange
  \/ handleSubmit
  \/ handleAuthSettle
  \/ fetchUserProfile
  \/ WebSocketEffect
  \/ onopen
  \/ onclose
  \/ onerror
  \/ ReloadEffect
  \/ handleLogout

\* The inbound side: every event of the server, and the conversation switches
Next ==
  \/ Lifecycle
  \/ ServerBoot
  \/ ServerMessage
  \/ ServerOnlineUsers
  \/ ServerReaction
  \/ ServerDelete
  \/ ServerError
  \/ ServerText
  \/ ServerOther
  \/ onmessage
  \/ handleUserSelect
  \/ handleGeneralChat

Spec == Init /\ [][Next]_vars

\* The outbound side: every handler of the user, over the lists that boot,
\* message, delete and plain-text events build; no handler reads onlineUsers
NextWire ==
  \/ Lifecycle
  \/ ServerBootAlone
  \/ ServerMessage
  \/ ServerDelete
  \/ ServerError
  \/ ServerText
  \/ onmessage
  \/ handleUserSelect
  \/ handleGeneralChat
  \/ setInput
  \/ setReplyTo
  \/ sendMessage
  \/ sendEmojiDirectly
  \/ handleFileUpload
  \/ handleFileUploadSettle
  \/ addReaction
  \/ deleteMessage

SpecWire == Init /\ [][NextWire]_vars

\* The program's own steps are taken when they can be: a settled request is
\* handled, a scheduled effect runs, an accepted socket opens, the server boots
\* the connection and a delivered frame is dispatched.  Nothing obliges the
\* user to act or the network to fail.
Fairness ==
  /\ WF_vars(HomeMountEffect)
  /\ WF_vars(handleAuthSettle)
  /\ WF_vars(fetchUserProfile)
  /\ WF_vars(WebSocketEffect)
  /\ WF_vars(onopen)
  /\ WF_vars(ReloadEffect)
  /\ WF_vars(ServerBoot)
  /\ WF_vars(onmessage)

FairSpec == Spec /\ Fairness

\* A development build: the mount effect runs twice, so user is set twice and
\* the WebSocket effect replaces the socket it made
NextStrict ==
  \/ Lifecycle
  \/ StrictModeRemount
  \/ fetchUserProfileAgain
  \/ oldOnclose
  \/ oldOnmessage
  \/ ServerBootAlone
  \/ ServerMessage
  \/ onmessage
  \/ handleUserSelect
  \/ handleGeneralChat

SpecStrict == Init /\ [][NextStrict]_vars

\* ------------------------------------------------------------------ claims
\* Membership of a message in a conversation, as the data model defines it:
\* no recipient for the general audience, the pair {author, recipient} for a
\* direct conversation.
HasRecipient(m) == m.recipientId # NoId /\ m.recipientId # Absent

BelongsToPair(m, a, b) ==
  \/ (m.user = a /\ m.recipientId = b)
  \/ (m.user = b /\ m.recipientId = a)

BelongsToSelected(m) ==
  IF selectedUser # NoId
    THEN BelongsToPair(m, user, selectedUser)
    ELSE ~HasRecipient(m)

DirectSelected == isDirectMessage /\ selectedUser # NoId

\* The step dispatches the frame at the head of inbox to ws.onmessage.
Dispatches(type) ==
  /\ inbox # <<>> /\ Head(inbox).type = type
  /\ inbox' = Tail(inbox) /\ ws' = "open"

FrameSent == lastCall.frame # NoFrame

\* C1: a file message uploaded while a direct conversation with B is selected
\* is sent with recipientId = B.
C1_FileFrameToSelected ==
  (lastCall.op = "handleFileUpload" /\ FrameSent /\ DirectSelected)
    => lastCall.frame.recipientId = selectedUser

\* C2: while a direct conversation with B is selected, every frame of
\* sendMessage and sendEmojiDirectly is a JSON frame with recipientId = B, for
\* every id of B, 0 included.
C2_TextFrameToSelected ==
  (lastCall.op \in {"sendMessage", "sendEmojiDirectly"} /\ FrameSent
     /\ DirectSelected)
    => (lastCall.frame.kind = "json" /\ lastCall.frame.recipientId = selectedUser)

\* C3: while a direct conversation with B is selected, every displayed message
\* is between the current user and B.
C3_DirectListOnlyPair ==
  (DirectSelected /\ ~reloadPending) =>
    \A k \in 1..Len(messages) : BelongsToPair(messages[k], user, selectedUser)

\* C4: a message event for a message between the current user and B, arriving
\* while the conversation with B is selected, is appended to the list.
C4_DirectMessageAppended ==
  [][(Dispatches("message") /\ DirectSelected
        /\ BelongsToPair(Head(inbox).data, user, selectedUser))
       => messages' = Append(messages, Head(inbox).data)]_vars

\* C5: after a switch to a direct conversation made while connected, the list
\* comes to hold the history of that conversation: the snapshot that loads it
\* installs exactly the messages a listener of the selected conversation
\* would hold.
C5_BootLoadsSelected ==
  [][(Dispatches("boot") /\ DirectSelected /\ switchedOnline)
       => messages' = SelectSeq(Head(inbox).messages, BelongsToSelected)]_vars

\* C6: a displayed message holds at most one reaction entry per emoji.
C6_OneEntryPerEmoji ==
  \A k \in 1..Len(messages) :
    \A i, j \in 1..Len(messages[k].reactions) :
      messages[k].reactions[i].emoji = messages[k].reactions[j].emoji => i = j

\* C7: addReaction and deleteMessage issue their HTTP request whatever the
\* state of the socket.
C7_MutationsIgnoreSocket ==
  lastCall.op \in {"addReaction", "deleteMessage"} => lastCall.http # NoReq

\* C8: after the socket closes while the user is logged in, the client opens a
\* new socket and applies a fresh boot snapshot (or the user has logged out).
Booted ==
  /\ ws = "open" /\ bootSent
  /\ (inbox = <<>> \/ Head(inbox).type # "boot")

C8_Reconnects ==
  (ChatAppRendered /\ ws = "closed") ~> (Booted \/ ~ChatAppRendered)

\* C9: while general chat is selected no displayed message carries a
\* recipientId, whatever the id, 0 included.
C9_GeneralListNoRecipient ==
  (~isDirectMessage /\ ~reloadPending) => \A k \in 1..Len(messages) : ~HasRecipient(messages[k])

\* C10: a replyTo id put in an outbound frame is the id of a message displayed
\* at that moment, and not of a System message the client made itself.
C10_ReplyToDisplayed ==
  (FrameSent /\ lastCall.frame.replyTo # NoId /\ lastCall.frame.replyTo # Absent)
    => /\ \E k \in 1..Len(messages) : messages[k].id = lastCall.frame.replyTo
       /\ lastCall.frame.replyTo \notin ClientIds

\* C11: a DELETE request deleteMessage issues names a message whose author is
\* the current user.
C11_DeleteOnlyOwn ==
  (lastCall.op = "deleteMessage" /\ lastCall.http # NoReq)
    => lastCall.http.author = user

\* C12: a WebSocket exists only once GET /auth/me has succeeded and its
\* profile is stored in user; when GET /auth/me settles without a profile the
\* page is logged out (onLogout) and no WebSocket is created.
ProfileRefused == profileReq /\ ~profileReq' /\ user' = NoId

C12_SocketAfterProfile ==
  [][/\ ws' # "none" => (user' # NoId /\ ~profileReq')
     /\ ProfileRefused =>
          (token' = NoToken /\ ~isAuthenticated' /\ ws' = "none" /\ ~wsEffect')
    ]_vars

C12_Witness == ws = "connecting" /\ user \in ProfileIds /\ ~profileReq

\* C13: an outbound frame has non-empty content unless it carries a fileUrl;
\* the content sendMessage sends is never empty or made of spaces only, and a
\* frame with empty content is the file-upload frame with the uploaded fileUrl.
IsBlank(s) == \A i \in 1..Len(s) : s[i] = " "

C13_ContentOrFile ==
  FrameSent =>
    /\ lastCall.frame.content # <<>> \/ lastCall.frame.fileUrl # "absent"
    /\ lastCall.op = "sendMessage" => ~IsBlank(lastCall.frame.content)
    /\ lastCall.frame.content = <<>> =>
         (lastCall.op = "handleFileUpload" /\ lastCall.frame.fileUrl = "/uploads/f")

C13_Witness ==
  FrameSent /\ lastCall.op = "sendMessage" /\ lastCall.frame.content = <<"a">>

\* C14: sendMessage with non-blank input and an open socket sends exactly one
\* frame.  In general chat with no reply target it is the raw text of the
\* input without its leading and trailing spaces; in a direct conversation or
\* with a reply target it is a JSON frame with that text as content, replyTo =
\* the id of the reply target or null, a recipientId and messageType 'text'.
Spaces(n) == [i \in 1..n |-> " "]

\* c is text without its leading and trailing spaces
IsTrimOf(c, text) ==
  /\ c # <<>> /\ c[1] # " " /\ c[Len(c)] # " "
  /\ \E l, r \in 0..Len(text) : text = Spaces(l) \o c \o Spaces(r)

SendsFromInput == lastCall'.op = "sendMessage" /\ ~IsBlank(input) /\ ws = "open"

C14_SendMessageFrame ==
  [][SendsFromInput =>
       LET f == lastCall'.frame IN
       /\ f # NoFrame
       /\ IsTrimOf(f.content, input)
       /\ IF ~isDirectMessage /\ replyTo = NoId
            THEN f.kind = "raw"
            ELSE /\ f.kind = "json"
                 /\ f.replyTo = replyTo
                 /\ f.recipientId \in {NoId} \cup UserIds
                 /\ f.messageType = "text"
    ]_vars

C14_Witness ==
  /\ lastCall.op = "sendMessage" /\ FrameSent
  /\ lastCall.frame.kind = "json" /\ lastCall.frame.replyTo # NoId

\* C15: a delete event with messageId x removes from the displayed list the
\* messages whose id is x and no other: the others stay, unchanged and in the
\* same order, and the list is unchanged when no displayed message has id x.
\* keep maps the positions of the new list to those of the old one.
RemovesExactly(old, new, x) ==
  LET kept == {i \in 1..Len(old) : old[i].id # x} IN
  /\ Len(new) = Cardinality(kept)
  /\ \A j \in 1..Len(new) :
       \E i \in kept :
         /\ new[j] = old[i]
         /\ Cardinality({h \in kept : h < i}) = j - 1

C15_DeleteRemovesExactly ==
  [][Dispatches("delete") =>
       LET x == Head(inbox).messageId IN
       /\ RemovesExactly(messages, messages', x)
       /\ (\A k \in 1..Len(messages) : messages[k].id # x) => messages' = messages
    ]_vars

\* a delete event has removed message 1 of the two displayed
C15_Witness ==
  /\ lastCall = Dispatched("delete", 2)
  /\ Len(messages) = 1 /\ messages[1].id = 2

\* C16: onlineUsers is the online-users payload of the latest boot or
\* online_users event, the empty list when the payload is missing, whatever
\* conversation is selected; message, reaction, delete and error events leave
\* it as it is, and so does every other step while ChatApp stays mounted.
PayloadList(p) == IF p = NoList THEN <<>> ELSE p.list

C16_OnlineUsersFollowEvents ==
  [][/\ Dispatches("boot") => onlineUsers' = PayloadList(Head(inbox).online_users)
     /\ Dispatches("online_users") => onlineUsers' = PayloadList(Head(inbox).data)
     /\ (\E t \in {"message", "reaction", "delete", "error"} : Dispatches(t))
          => onlineUsers' = onlineUsers
     /\ onlineUsers' # onlineUsers =>
          \/ Dispatches("boot") \/ Dispatches("online_users")
          \/ (~ChatAppRendered' /\ onlineUsers' = <<>>)
    ]_vars

\* an online_users event has replaced the list while a direct conversation is
\* selected
C16_Witness ==
  /\ lastCall.op = "onmessage" /\ lastCall.event = "online_users"
  /\ isDirectMessage /\ onlineUsers = <<0, 1>>

\* C17: the displayed list keeps the order of arrival.  The server numbers its
\* messages in the order it sends them, the boot snapshot first, so of two
\* displayed messages of the server the one that arrived first has the smaller
\* id and stands before the other.
ServerIds == 1..(MaxBoot + MaxMsgId)

C17_ArrivalOrder ==
  \A i, j \in 1..Len(messages) :
    (i < j /\ messages[i].id \in ServerIds /\ messages[j].id \in ServerIds)
      => messages[i].id < messages[j].id

\* a message event has been appended behind an earlier message
C17_Witness ==
  /\ lastCall = Dispatched("message", 1)
  /\ Len(messages) = 2 /\ messages[1].id = 1 /\ messages[2].id = 2

\* C18: the Logout button (handleLogout) removes authToken from localStorage,
\* closes the socket and calls onLogout: the page then holds token = null and
\* isAuthenticated = false and renders a fresh AuthContainer, not ChatApp.
LogoutClicked == ChatAppRendered /\ ~isLoading /\ token' # token

C18_ExplicitLogout ==
  [][LogoutClicked =>
       /\ authToken' = NoToken
       /\ ws' \notin {"connecting", "open"} /\ inbox' = <<>>
       /\ token' = NoToken /\ ~isAuthenticated'
       /\ ~ChatAppRendered' /\ mode' = "signin" /\ ~authIsLoading'
    ]_vars

C18_Witness ==
  /\ lastCall.op = "handleLogout"
  /\ token = NoToken /\ ~isAuthenticated /\ authToken = NoToken

\* C19: an inbound payload that is not blank and is not a JSON event of a known
\* type is appended to the displayed list as one message of the System user
\* (id 0) whose content is the payload; a blank payload changes nothing.
IsFallback(m, raw) == m.user = 0 /\ m.content = raw /\ m.id \in ClientIds

NotAnEvent == Dispatches("text") \/ Dispatches("unknown")

C19_PlainTextFallback ==
  [][NotAnEvent =>
       LET raw == Head(inbox).raw IN
       IF IsBlank(raw)
         THEN messages' = messages
         ELSE /\ Len(messages') = Len(messages) + 1
              /\ SubSeq(messages', 1, Len(messages)) = messages
              /\ IsFallback(messages'[Len(messages')], raw)
    ]_vars

\* C20: sendMessage, sendEmojiDirectly, handleFileUpload, addReaction,
\* deleteMessage and an inbound error event leave the displayed list and the
\* connection as they are, and the list of a mounted ChatApp changes only when
\* a boot, message, reaction or delete event or a plain-text payload is
\* dispatched or the user switches the conversation.
SendingOps ==
  {"sendMessage", "sendEmojiDirectly", "handleFileUpload", "addReaction",
   "deleteMessage"}

ListEvents == {"boot", "message", "reaction", "delete", "text"}

ConversationSwitched == UiReady /\ ChatAppRendered' /\ messages' = <<>>

C20_NoOptimisticUpdate ==
  [][/\ (lastCall'.op \in SendingOps \/ Dispatches("error"))
          => UNCHANGED <<messages, isConnected, ws>>
     /\ (messages' # messages /\ ChatAppRendered') =>
          \/ \E t \in ListEvents : Dispatches(t)
          \/ ConversationSwitched
    ]_vars

\* C21: the effect that empties the list when isConnected becomes true does
\* not run after the boot event of the connection has been applied, so it
\* never erases the messages the boot event loaded.
BootApplied == bootSent /\ (inbox = <<>> \/ Head(inbox).type # "boot")

ReloadEffectRuns == reloadPending /\ ~reloadPending' /\ ChatAppRendered'

C21_BootSnapshotStays ==
  [][(ReloadEffectRuns /\ BootApplied) => messages' = messages]_vars

\* C22: once the WebSocket effect has replaced the socket, a late close, error
\* or message event of the replaced socket does not set isConnected to false
\* while the current socket is open and does not change the displayed list.
SupersededEvent ==
  /\ oldWs = "closing"
  /\ oldWs' = "gone" \/ lastCall'.op = "onmessage(old)"

C22_CurrentSocketOnly ==
  [][SupersededEvent =>
       /\ ws = "open" => isConnected'
       /\ messages' = messages
    ]_vars

\* C23: whenever ChatApp ends the session, by handleLogout or because
\* fetchUserProfile got no profile, localStorage holds no authToken afterwards
\* (so the next page load stays on the sign-in form).
SessionEnded == ChatAppRendered /\ ~ChatAppRendered'

C23_SessionEndClearsStorage ==
  [][SessionEnded => authToken' = NoToken]_vars

\* C24: a successful sign-up stores no token, does not call onAuthSuccess and
\* switches the mode to signin; a successful sign-in stores the access_token of
\* the answer in localStorage and hands that same token to onAuthSuccess; a
\* failed request stores nothing, does not call onAuthSuccess and sets an
\* error that is not empty.
HomeUntouched == UNCHANGED <<authToken, token, isAuthenticated>>

C24_HandleAuthOutcomes ==
  [][lastCall'.op = "handleAuth" =>
       LET r == lastCall'.http IN
       IF r.outcome = "ok"
         THEN IF r.endpoint = "signup"
                THEN HomeUntouched /\ mode' = "signin"
                ELSE /\ authToken' = r.access_token
                     /\ token' = r.access_token
                     /\ isAuthenticated'
         ELSE HomeUntouched /\ error' # "" /\ ~ChatAppRendered'
    ]_vars

\* a sign-in has failed
C24_Witness ==
  /\ lastCall.op = "handleAuth" /\ lastCall.http.endpoint = "signin"
  /\ lastCall.http.outcome = "notOk" /\ error = "Authentication failed"

\* The text has the form x@y.z with x, y and z non-empty
FormXatYdotZ(text) ==
  \E i, k \in 1..Len(text) :
    i > 1 /\ text[i] = "@" /\ k > i + 1 /\ text[k] = "." /\ k < Len(text)

SubmitCalled == lastCall'.op = "handleSubmit" /\ lastCall'.onSubmit

\* C25: AuthForm calls onSubmit only when validation passes, that is with an
\* email that is non-empty and of the form x@y.z, a password of at least 6
\* characters and, in signup mode, a username of at least 3 characters; in
\* signin mode the submitted data has no username field, whatever the username
\* state holds.
C25_SubmitOnlyValid ==
  [][SubmitCalled =>
       /\ formData.email # <<>> /\ FormXatYdotZ(formData.email)
       /\ Len(formData.password) >= 6
       /\ mode = "signup" => Len(formData.username) >= 3
       /\ lastCall'.data.email = formData.email
       /\ lastCall'.data.password = formData.password
       /\ mode = "signin" => "username" \notin DOMAIN lastCall'.data
       /\ mode = "signup" => lastCall'.data.username = formData.username ]_vars

\* a sign-in was submitted while the username state held a text
C25_Witness ==
  /\ lastCall.op = "handleSubmit" /\ lastCall.onSubmit
  /\ authReq = "signin" /\ formData.username # <<>>
  /\ DOMAIN lastCall.data = {"email", "password"}

\* C26: sendMessage with blank input, no socket, or a socket that is not OPEN
\* sends nothing and leaves input and replyTo unchanged; a call that does send
\* clears input to the empty string and replyTo to null.
C26_SendMessageGuard ==
  [][lastCall'.op = "sendMessage" =>
       /\ (IsBlank(input) \/ ws # "open") =>
            lastCall'.frame = NoFrame /\ UNCHANGED <<input, replyTo>>
       /\ lastCall'.frame # NoFrame => input' = <<>> /\ replyTo' = NoId ]_vars

\* a reply was sent and both input and replyTo are cleared
C26_Witness ==
  /\ lastCall.op = "sendMessage" /\ lastCall.frame # NoFrame
  /\ lastCall.frame.replyTo \in 1..MaxMsgId
  /\ input = <<>> /\ replyTo = NoId

\* C27: in every reachable state of ChatApp, isDirectMessage is true if and
\* only if selectedUser is non-null, after any sequence of handleUserSelect and
\* handleGeneralChat calls.
C27_DirectIffSelected == isDirectMessage <=> selectedUser # NoId

\* a user was selected and the socket has delivered messages since
C27_Witness ==
  /\ ChatAppRendered /\ isDirectMessage /\ selectedUser \in UserIds
  /\ messages # <<>>

\* C28: in every reachable state of the Home page, isAuthenticated is true if
\* and only if token is a non-empty string, through the mount effect,
\* handleAuthSuccess (for every value the sign-in response supplies as
\* access_token) and handleLogout; ChatApp is rendered exactly in those states.
C28_AuthenticatedIffToken ==
  /\ isAuthenticated <=> (token # NoToken /\ token # "")
  /\ ChatAppRendered <=> isAuthenticated

\* C29: every authentication attempt in AuthContainer that sets isLoading to
\* true eventually sets it back to false, whether the request succeeds,
\* returns a non-success status, returns a body that is not JSON, or throws,
\* provided the fetch settles.
C29_LoadingEnds == authIsLoading ~> ~authIsLoading

\* an attempt whose answer was not JSON has ended and the form is usable again
C29_Witness ==
  /\ lastCall.op = "handleAuth" /\ lastCall.http.outcome = "notJson"
  /\ ~authIsLoading /\ authReq = "none"

====
